---- MODULE Spec2Model ----
(***************************************************************************)
(* Model of the expo-color-space-plugin command line tool (src/cli.ts).    *)
(*                                                                         *)
(* Texts (arguments, file contents, console lines) are sequences of        *)
(* one-character strings, so that String.split, String.includes, the       *)
(* three regular expressions, JSON.parse and JSON.stringify are computed   *)
(* character by character, as the program computes them.                   *)
(***************************************************************************)
EXTENDS Integers, Sequences, FiniteSets, TLC

(***************************************************************************)
(* Bounds of the model.                                                    *)
(***************************************************************************)
\* Number of consecutive invocations of the tool in the same directory.
MaxRuns == 2

(***************************************************************************)
(* String primitives.                                                      *)
(***************************************************************************)
\* The identifier 'expo-color-space-plugin' (cli.ts:59, 62, 91, 110, 115).
PluginId ==
    <<"e","x","p","o","-","c","o","l","o","r","-","s","p","a","c","e","-","p","l","u","g","i",
      "n">>

\* The two members of type ColorSpace (cli.ts:7).
DisplayP3 ==
    <<"d","i","s","p","l","a","y","P","3">>

SRGB ==
    <<"S","R","G","B">>

\* Property names read and written by modifyAppJson.
KeyExpo ==
    <<"e","x","p","o">>

KeyPlugins ==
    <<"p","l","u","g","i","n","s">>

KeyColorSpace ==
    <<"c","o","l","o","r","S","p","a","c","e">>

\* Characters matched by \s in the regular expressions, skipped by JSON.parse
\* between tokens and removed by String.trim.
WhiteSpace == {" ", "\n", "\t", "\r"}

Digits == {"0", "1", "2", "3", "4", "5", "6", "7", "8", "9"}

\* s.slice(i - 1): the suffix of s that starts at position i.
Tail_(s, i) == SubSeq(s, i, Len(s))

\* True iff the text p occurs in s at position i.
OccursAt(s, i, p) ==
    /\ i >= 1
    /\ i + Len(p) - 1 <= Len(s)
    /\ SubSeq(s, i, i + Len(p) - 1) = p

\* String.prototype.startsWith.
StartsWith(s, p) == OccursAt(s, 1, p)

\* String.prototype.includes.
Includes(s, p) == \E i \in 1..(Len(s) + 1) : OccursAt(s, i, p)

\* First position >= i of s that holds no white space (Len(s) + 1 if none).
RECURSIVE SkipWs(_, _)
SkipWs(s, i) ==
    IF i <= Len(s) /\ s[i] \in WhiteSpace THEN SkipWs(s, i + 1) ELSE i

\* Last position <= i of s that holds no white space (0 if none).
RECURSIVE SkipWsBack(_, _)
SkipWsBack(s, i) ==
    IF i >= 1 /\ s[i] \in WhiteSpace THEN SkipWsBack(s, i - 1) ELSE i

\* String.prototype.trim.
Trim(s) == SubSeq(s, SkipWs(s, 1), SkipWsBack(s, Len(s)))

\* First position >= i of s that holds the character c (Len(s) + 1 if none).
RECURSIVE IndexOfChar(_, _, _)
IndexOfChar(s, c, i) ==
    IF i > Len(s) \/ s[i] = c THEN i ELSE IndexOfChar(s, c, i + 1)

\* String.prototype.split with a one-character separator: the sequence of
\* the pieces of s between the occurrences of c.
RECURSIVE Split(_, _)
Split(s, c) ==
    LET j == IndexOfChar(s, c, 1) IN
    IF j > Len(s) THEN <<s>>
    ELSE <<SubSeq(s, 1, j - 1)>> \o Split(Tail_(s, j + 1), c)

\* A string of n spaces.
RECURSIVE Spaces(_)
Spaces(n) == IF n <= 0 THEN <<>> ELSE <<" ">> \o Spaces(n - 1)

(***************************************************************************)
(* JavaScript values, as JSON.parse builds them and the program mutates    *)
(* them.  Every value is a record of the same shape:                       *)
(*   t     - the type tag                                                  *)
(*   s     - the characters of a string, or the digits of a number         *)
(*   items - the indexed elements of an array                              *)
(*   props - the named own properties of an object or of an array, as a    *)
(*           sequence of <<key, value>> pairs in insertion order           *)
(***************************************************************************)
JsValue(t, s, items, props) ==
    [t |-> t, s |-> s, items |-> items, props |-> props]

Undefined == JsValue("undefined", <<>>, <<>>, <<>>)
JNull == JsValue("null", <<>>, <<>>, <<>>)
JTrue == JsValue("true", <<>>, <<>>, <<>>)
JFalse == JsValue("false", <<>>, <<>>, <<>>)
JNum(digits) == JsValue("number", digits, <<>>, <<>>)
JStr(s) == JsValue("string", s, <<>>, <<>>)
JArr(items) == JsValue("array", <<>>, items, <<>>)
JObj(props) == JsValue("object", <<>>, <<>>, props)

\* Array.isArray.
IsArray(v) == v.t = "array"

\* ToBoolean, as applied by the ! operator: undefined, null, false, 0 and
\* the empty string are falsy.
Truthy(v) ==
    /\ v.t \notin {"undefined", "null", "false"}
    /\ ~(v.t = "number" /\ v.s = <<"0">>)
    /\ ~(v.t = "string" /\ v.s = <<>>)

\* Index of key among the named properties (0 if absent).
PropIndex(props, key) ==
    IF \E i \in 1..Len(props) : props[i][1] = key
    THEN CHOOSE i \in 1..Len(props) : props[i][1] = key
    ELSE 0

\* props with key bound to val: an existing key keeps its position, a new
\* key goes last.
PutProp(props, key, val) ==
    LET i == PropIndex(props, key) IN
    IF i = 0 THEN Append(props, <<key, val>>)
    ELSE [props EXCEPT ![i] = <<key, val>>]

\* The property read v.key, for a key that is neither an array index nor a
\* built-in property: reading from null or undefined throws a TypeError, a
\* primitive has no such property.
GetThrows(v) == v.t \in {"null", "undefined"}

GetProp(v, key) ==
    LET i == PropIndex(v.props, key) IN
    IF i = 0 THEN Undefined ELSE v.props[i][2]

\* The assignment v.key = val: the module is strict code, so assigning a
\* property of a primitive throws a TypeError; an array takes the named
\* property beside its elements.
SetThrows(v) == v.t \notin {"object", "array"}

SetProp(v, key, val) == [v EXCEPT !.props = PutProp(v.props, key, val)]

(***************************************************************************)
(* JSON.parse (cli.ts:74).  A parse result is [ok, val, pos]: whether the  *)
(* text was well formed, the value read, and the position after it.  The   *)
(* grammar covers objects, arrays, strings without escape sequences,       *)
(* unsigned integers and the three literals.                               *)
(***************************************************************************)
ParseFail == [ok |-> FALSE, val |-> Undefined, pos |-> 0]

ParseOk(v, p) == [ok |-> TRUE, val |-> v, pos |-> p]

LitTrue ==
    <<"t","r","u","e">>

LitFalse ==
    <<"f","a","l","s","e">>

LitNull ==
    <<"n","u","l","l">>

\* A string token that opens at position i (s[i] is the double quote).
ParseString(s, i) ==
    LET j == IndexOfChar(s, "\"", i + 1) IN
    IF j > Len(s) THEN ParseFail
    ELSE ParseOk(JStr(SubSeq(s, i + 1, j - 1)), j + 1)

\* First position >= i of s that holds no digit.
RECURSIVE SkipDigits(_, _)
SkipDigits(s, i) ==
    IF i <= Len(s) /\ s[i] \in Digits THEN SkipDigits(s, i + 1) ELSE i

\* A number token at position i (s[i] is a digit); a leading zero stands
\* alone.
ParseNumber(s, i) ==
    LET j == IF s[i] = "0" THEN i + 1 ELSE SkipDigits(s, i) IN
    ParseOk(JNum(SubSeq(s, i, j - 1)), j)

RECURSIVE ParseValue(_, _)
RECURSIVE ParseElements(_, _, _)
RECURSIVE ParseMembers(_, _, _)

\* The elements of an array from position i on, acc being those read so far.
ParseElements(s, i, acc) ==
    LET v == ParseValue(s, i) IN
    IF ~v.ok THEN ParseFail
    ELSE LET j == SkipWs(s, v.pos) IN
         IF j > Len(s) THEN ParseFail
         ELSE IF s[j] = "," THEN ParseElements(s, j + 1, Append(acc, v.val))
         ELSE IF s[j] = "]" THEN ParseOk(JArr(Append(acc, v.val)), j + 1)
         ELSE ParseFail

\* The members of an object from position i on, acc being those read so
\* far; a repeated key keeps its first position and takes the last value.
ParseMembers(s, i, acc) ==
    LET k == SkipWs(s, i) IN
    IF k > Len(s) \/ s[k] # "\"" THEN ParseFail
    ELSE LET key == ParseString(s, k) IN
         IF ~key.ok THEN ParseFail
         ELSE LET c == SkipWs(s, key.pos) IN
              IF c > Len(s) \/ s[c] # ":" THEN ParseFail
              ELSE LET v == ParseValue(s, c + 1) IN
                   IF ~v.ok THEN ParseFail
                   ELSE LET j == SkipWs(s, v.pos)
                            next == PutProp(acc, key.val.s, v.val)
                        IN IF j > Len(s) THEN ParseFail
                           ELSE IF s[j] = "," THEN ParseMembers(s, j + 1, next)
                           ELSE IF s[j] = "}" THEN ParseOk(JObj(next), j + 1)
                           ELSE ParseFail

\* One value, after optional white space, from position i on.
ParseValue(s, i) ==
    LET j == SkipWs(s, i) IN
    IF j > Len(s) THEN ParseFail
    ELSE IF s[j] = "{" THEN
        LET k == SkipWs(s, j + 1) IN
        IF k <= Len(s) /\ s[k] = "}" THEN ParseOk(JObj(<<>>), k + 1)
        ELSE ParseMembers(s, j + 1, <<>>)
    ELSE IF s[j] = "[" THEN
        LET k == SkipWs(s, j + 1) IN
        IF k <= Len(s) /\ s[k] = "]" THEN ParseOk(JArr(<<>>), k + 1)
        ELSE ParseElements(s, j + 1, <<>>)
    ELSE IF s[j] = "\"" THEN ParseString(s, j)
    ELSE IF s[j] \in Digits THEN ParseNumber(s, j)
    ELSE IF OccursAt(s, j, LitTrue) THEN ParseOk(JTrue, j + Len(LitTrue))
    ELSE IF OccursAt(s, j, LitFalse) THEN ParseOk(JFalse, j + Len(LitFalse))
    ELSE IF OccursAt(s, j, LitNull) THEN ParseOk(JNull, j + Len(LitNull))
    ELSE ParseFail

\* JSON.parse(s): one value and nothing but white space after it; ok is
\* FALSE where JSON.parse throws a SyntaxError.
JSONParse(s) ==
    LET v == ParseValue(s, 1) IN
    IF v.ok /\ SkipWs(s, v.pos) = Len(s) + 1 THEN v ELSE ParseFail

(***************************************************************************)
(* JSON.stringify(value, null, 2) (cli.ts:94): properties in insertion     *)
(* order, one per line, each nesting level indented by two more spaces.    *)
(* Of an array only the indexed elements are written: its named            *)
(* properties are not part of the JSON text.                               *)
(***************************************************************************)
Quote(s) == <<"\"">> \o s \o <<"\"">>

RECURSIVE Stringify(_, _)
RECURSIVE StringifyItems(_, _, _)
RECURSIVE StringifyProps(_, _, _)

\* The elements items[i..] on lines indented by ind, separated by commas.
StringifyItems(items, i, ind) ==
    IF i > Len(items) THEN <<>>
    ELSE Spaces(ind) \o Stringify(items[i], ind)
         \o (IF i < Len(items) THEN <<",">> ELSE <<>>)
         \o <<"\n">> \o StringifyItems(items, i + 1, ind)

\* The properties props[i..] on lines indented by ind, separated by commas.
StringifyProps(props, i, ind) ==
    IF i > Len(props) THEN <<>>
    ELSE Spaces(ind) \o Quote(props[i][1]) \o <<":", " ">>
         \o Stringify(props[i][2], ind)
         \o (IF i < Len(props) THEN <<",">> ELSE <<>>)
         \o <<"\n">> \o StringifyProps(props, i + 1, ind)

\* The text of v, v itself being indented by ind spaces.
Stringify(v, ind) ==
    IF v.t = "object" THEN
        IF v.props = <<>> THEN <<"{", "}">>
        ELSE <<"{", "\n">> \o StringifyProps(v.props, 1, ind + 2)
             \o Spaces(ind) \o <<"}">>
    ELSE IF v.t = "array" THEN
        IF v.items = <<>> THEN <<"[", "]">>
        ELSE <<"[", "\n">> \o StringifyItems(v.items, 1, ind + 2)
             \o Spaces(ind) \o <<"]">>
    ELSE IF v.t = "string" THEN Quote(v.s)
    ELSE IF v.t = "number" THEN v.s
    ELSE IF v.t = "true" THEN LitTrue
    ELSE IF v.t = "false" THEN LitFalse
    ELSE LitNull

JSONStringify(v) == Stringify(v, 0)

(***************************************************************************)
(* Console lines and recorded events.                                      *)
(***************************************************************************)
\* One console line: which message of the program it is, and the text the
\* message interpolates.
Line(msg, text) == [msg |-> msg, text |-> text]

\* One recorded step of a run: a file-system call with the file name
\* ("exists", "read", "write", or "readFailed", "writeFailed" when the call
\* throws), the entry check ("detect", with its result) or the prompt
\* ("prompt").
Event(ev, arg) == [ev |-> ev, arg |-> arg]

\* What a patcher did: whether it threw, the value it returned, the
\* content the file has afterwards, the console lines it printed and the
\* steps it took.
Outcome(threw, ret, content, lines, events) ==
    [threw |-> threw, ret |-> ret, content |-> content, lines |-> lines,
     events |-> events]

\* Variant of Thrown: the file is emptied when the patcher fails.
ThrownTruncated(content, events) == Outcome(TRUE, FALSE, <<>>, <<>>, events)

\* A patcher that throws (cli.ts:97-99, 156-158): the exception is thrown
\* again as an Error, and the file is as the failed step left it.
Thrown(content, events) == Outcome(TRUE, FALSE, content, <<>>, events)

(***************************************************************************)
(* isPluginInConfig (cli.ts:54-66).                                        *)
(***************************************************************************)
\* The callback of plugins.some: a string equal to the identifier, or a
\* non-empty array whose first element is that string.
IsPluginElement(plugin) ==
    IF plugin.t = "string" THEN plugin.s = PluginId
    ELSE IF IsArray(plugin) /\ Len(plugin.items) > 0
         THEN plugin.items[1] = JStr(PluginId)
         ELSE FALSE

isPluginInConfig(plugins) ==
    IF ~IsArray(plugins) THEN FALSE
    ELSE \E i \in 1..Len(plugins.items) : IsPluginElement(plugins.items[i])

(***************************************************************************)
(* modifyAppJson (cli.ts:71-100).  readOk and writeOk say whether          *)
(* fs.readFileSync and fs.writeFileSync succeed; a failing call throws     *)
(* and leaves the file as it was.                                          *)
(***************************************************************************)
\* ['expo-color-space-plugin', { colorSpace }] (cli.ts:91).
NewPluginElement(colorSpace) ==
    JArr(<<JStr(PluginId), JObj(<<<<KeyColorSpace, JStr(colorSpace)>>>>)>>)

\* config with config.expo defaulted to {} (cli.ts:76-78).
EnsureExpo(config) ==
    IF ~Truthy(GetProp(config, KeyExpo))
    THEN SetProp(config, KeyExpo, JObj(<<>>))
    ELSE config

\* Variant of EnsurePlugins: the list is reset without the test of
\* cli.ts:80.
EnsurePluginsReset(config) ==
    SetProp(config, KeyExpo,
            SetProp(GetProp(config, KeyExpo), KeyPlugins, JArr(<<>>)))

\* config with config.expo.plugins defaulted to [] (cli.ts:80-82); the
\* object held by config.expo is updated in place.
EnsurePlugins(config) ==
    LET expo == GetProp(config, KeyExpo) IN
    IF ~Truthy(GetProp(expo, KeyPlugins))
    THEN SetProp(config, KeyExpo, SetProp(expo, KeyPlugins, JArr(<<>>)))
    ELSE config

\* config after config.expo.plugins.push(element) (cli.ts:91); the array
\* held by config.expo.plugins is updated in place.
PushPlugin(config, element) ==
    LET expo == GetProp(config, KeyExpo)
        plugins == GetProp(expo, KeyPlugins)
        pushed == [plugins EXCEPT !.items = Append(plugins.items, element)]
    IN SetProp(config, KeyExpo, SetProp(expo, KeyPlugins, pushed))

\* The text written back (cli.ts:94).
AppJsonText(config) == JSONStringify(config) \o <<"\n">>

modifyAppJson(file, content, colorSpace, readOk, writeOk) ==
    LET rd == <<Event("read", file)>>
        parsed == JSONParse(content)
        config == parsed.val
        c1 == EnsureExpo(config)
        c2 == EnsurePlugins(c1)
        plugins == GetProp(GetProp(c2, KeyExpo), KeyPlugins)
        found == isPluginInConfig(plugins)
        det == <<Event("detect", IF found THEN "true" ELSE "false")>>
        c3 == PushPlugin(c2, NewPluginElement(colorSpace))
    IN
    IF ~readOk
    THEN Thrown(content, <<Event("readFailed", file)>>)
    ELSE IF ~parsed.ok
    THEN Thrown(content, rd)
    ELSE IF GetThrows(config)
    THEN Thrown(content, rd)
    ELSE IF ~Truthy(GetProp(config, KeyExpo)) /\ SetThrows(config)
    THEN Thrown(content, rd)
    ELSE IF ~Truthy(GetProp(GetProp(c1, KeyExpo), KeyPlugins))
            /\ SetThrows(GetProp(c1, KeyExpo))
    THEN Thrown(content, rd)
    ELSE IF found
    THEN Outcome(FALSE, FALSE, content,
                 <<Line("alreadyConfigured", <<file>>)>>, rd \o det)
    ELSE IF ~IsArray(plugins)
    THEN Thrown(content, rd \o det)
    ELSE IF ~writeOk
    THEN Thrown(content, rd \o det \o <<Event("writeFailed", file)>>)
    ELSE Outcome(FALSE, TRUE, AppJsonText(c3), <<>>,
                 rd \o det \o <<Event("write", file)>>)

(***************************************************************************)
(* The regular expressions of modifyAppConfigJs and String.replace.        *)
(***************************************************************************)
\* The three patterns are a literal word, \s*, and one opening bracket.
Pattern(word, open) == [word |-> word, open |-> open]

\* /(plugins:\s*\[)/ (cli.ts:119).
pluginsArrayRegex ==
    Pattern(
    <<"p","l","u","g","i","n","s",":">>
    , "[")

\* /("plugins":\s*\[)/ (cli.ts:130).
pluginsArrayJsonRegex ==
    Pattern(
    <<"\"","p","l","u","g","i","n","s","\"",":">>
    , "[")

\* /(expo:\s*\{)/ (cli.ts:141).
expoObjectRegex ==
    Pattern(
    <<"e","x","p","o",":">>
    , "{")

\* Position of the last character of a match of pat that starts at i, or 0.
MatchEnd(s, pat, i) ==
    IF ~OccursAt(s, i, pat.word) THEN 0
    ELSE LET j == SkipWs(s, i + Len(pat.word)) IN
         IF j <= Len(s) /\ s[j] = pat.open THEN j ELSE 0

\* RegExp.prototype.test.
RegexTest(s, pat) == \E i \in 1..Len(s) : MatchEnd(s, pat, i) > 0

\* Start of the leftmost match (the regular expressions are not global).
MatchStart(s, pat) ==
    CHOOSE i \in 1..Len(s) :
        /\ MatchEnd(s, pat, i) > 0
        /\ \A k \in 1..(i - 1) : MatchEnd(s, pat, k) = 0

\* Variant of RegexReplace: the replacement lacks $1, so the match itself
\* is lost.
RegexReplaceNoGroup(s, pat, after) ==
    LET i == MatchStart(s, pat)
        j == MatchEnd(s, pat, i)
    IN SubSeq(s, 1, i - 1) \o after \o Tail_(s, j + 1)

\* s.replace(pat, `$1${after}`): the leftmost match is replaced by its
\* first group, which is the whole match, followed by after.
RegexReplace(s, pat, after) ==
    LET i == MatchStart(s, pat)
        j == MatchEnd(s, pat, i)
    IN SubSeq(s, 1, i - 1) \o SubSeq(s, i, j) \o after \o Tail_(s, j + 1)

(***************************************************************************)
(* modifyAppConfigJs (cli.ts:105-159).                                     *)
(***************************************************************************)
EntryHead ==
    <<"[","\"","e","x","p","o","-","c","o","l","o","r","-","s","p","a","c","e","-","p","l","u",
      "g","i","n","\"",","," ","{"," ","\"","c","o","l","o","r","S","p","a","c","e","\"",":",
      " ","\"">>

EntryClose ==
    <<"\""," ","}","]">>

\* const pluginEntry (cli.ts:115).
PluginEntry(colorSpace) == EntryHead \o colorSpace \o EntryClose

ListIndent ==
    <<"\n"," "," "," "," "," "," ">>

NewListOpen ==
    <<"\n"," "," "," "," ","p","l","u","g","i","n","s",":"," ","[">>

NewListClose ==
    <<"\n"," "," "," "," ","]",",">>

\* What follows $1 in the replacement of patterns 1 and 2 (cli.ts:123, 134).
ListInsertion(colorSpace) == ListIndent \o PluginEntry(colorSpace) \o <<",">>

\* What follows $1 in the replacement of pattern 3 (cli.ts:145).
ExpoInsertion(colorSpace) ==
    NewListOpen \o ListIndent \o PluginEntry(colorSpace) \o NewListClose

\* Variant of AnchorRank: the expo pattern is tried first.
AnchorRankExpoFirst(content) ==
    IF RegexTest(content, expoObjectRegex) THEN 3
    ELSE IF RegexTest(content, pluginsArrayRegex) THEN 1
    ELSE IF RegexTest(content, pluginsArrayJsonRegex) THEN 2
    ELSE 0

\* The rank (1, 2, 3) of the pattern modifyAppConfigJs applies to content,
\* 0 when none matches.
AnchorRank(content) ==
    IF RegexTest(content, pluginsArrayRegex) THEN 1
    ELSE IF RegexTest(content, pluginsArrayJsonRegex) THEN 2
    ELSE IF RegexTest(content, expoObjectRegex) THEN 3
    ELSE 0

\* The content after the replacement of the pattern of that rank.
PatchedText(content, colorSpace) ==
    IF AnchorRank(content) = 1
    THEN RegexReplace(content, pluginsArrayRegex, ListInsertion(colorSpace))
    ELSE IF AnchorRank(content) = 2
    THEN RegexReplace(content, pluginsArrayJsonRegex,
                      ListInsertion(colorSpace))
    ELSE RegexReplace(content, expoObjectRegex, ExpoInsertion(colorSpace))

modifyAppConfigJs(file, content, colorSpace, readOk, writeOk) ==
    LET rd == <<Event("read", file)>>
        found == Includes(content, PluginId)
        det == <<Event("detect", IF found THEN "true" ELSE "false")>>
    IN
    IF ~readOk
    THEN Thrown(content, <<Event("readFailed", file)>>)
    ELSE IF found
    THEN Outcome(FALSE, FALSE, content,
                 <<Line("alreadyConfigured", <<file>>)>>, rd \o det)
    ELSE IF AnchorRank(content) = 0
    THEN Outcome(FALSE, FALSE, content,
                 <<Line("couldNotModify", <<file>>),
                   Line("pleaseAddManually", <<>>),
                   Line("manualEntry", PluginEntry(colorSpace))>>,
                 rd \o det)
    ELSE IF ~writeOk
    THEN Thrown(content, rd \o det \o <<Event("writeFailed", file)>>)
    ELSE Outcome(FALSE, TRUE, PatchedText(content, colorSpace), <<>>,
                 rd \o det \o <<Event("write", file)>>)

(***************************************************************************)
(* The working directory.                                                  *)
(***************************************************************************)
\* const configFiles (cli.ts:18), in the order detectConfigFile tries them.
configFiles == <<"app.json", "app.config.js", "app.config.ts">>

FileNames == {configFiles[i] : i \in 1..Len(configFiles)}

\* path.extname of the three file names (cli.ts:181).
ExtName(file) ==
    CASE file = "app.json" -> ".json"
      [] file = "app.config.js" -> ".js"
      [] file = "app.config.ts" -> ".ts"
      [] OTHER -> ""

Absent == [exists |-> FALSE, content |-> <<>>]

File(content) == [exists |-> TRUE, content |-> content]

Dir(json, js, ts) ==
    [f \in FileNames |->
        IF f = "app.json" THEN json ELSE IF f = "app.config.js" THEN js ELSE ts]

\* Contents of app.json the runs start from.
JsonTexts == {
    \* {"expo":{"name":"X"}}
    <<"{","\"","e","x","p","o","\"",":","{","\"","n","a","m","e","\"",":","\"","X","\"","}","}">>
    ,
    \* {}
    <<"{","}">>
    ,
    \* {"name":"X","v":1}
    <<"{","\"","n","a","m","e","\"",":","\"","X","\"",",","\"","v","\"",":","1","}">>
    ,
    \* { "expo": { "plugins": [] } } on three lines
    <<"{","\n"," "," ","\"","e","x","p","o","\"",":"," ","{"," ","\"","p","l","u","g","i","n",
      "s","\"",":"," ","[","]"," ","}","\n","}","\n">>
    ,
    \* {"a":true,"expo":{"plugins":["p",["q",{"k":1}]],"n":0},"z":[1]}
    <<"{","\"","a","\"",":","t","r","u","e",",","\"","e","x","p","o","\"",":","{","\"","p","l",
      "u","g","i","n","s","\"",":","[","\"","p","\"",",","[","\"","q","\"",",","{","\"","k",
      "\"",":","1","}","]","]",",","\"","n","\"",":","0","}",",","\"","z","\"",":","[","1","]",
      "}">>
    ,
    \* {"expo":{"plugins":["expo-color-space-plugin"]}}
    <<"{","\"","e","x","p","o","\"",":","{","\"","p","l","u","g","i","n","s","\"",":","[","\"",
      "e","x","p","o","-","c","o","l","o","r","-","s","p","a","c","e","-","p","l","u","g","i",
      "n","\"","]","}","}">>
    ,
    \* {"expo":{"plugins":[["expo-color-space-plugin",{"colorSpace":"SRGB"}]]}}
    <<"{","\"","e","x","p","o","\"",":","{","\"","p","l","u","g","i","n","s","\"",":","[","[",
      "\"","e","x","p","o","-","c","o","l","o","r","-","s","p","a","c","e","-","p","l","u","g",
      "i","n","\"",",","{","\"","c","o","l","o","r","S","p","a","c","e","\"",":","\"","S","R",
      "G","B","\"","}","]","]","}","}">>
    ,
    \* {"expo":{"plugins":[[],{},["x","expo-color-space-plugin"]]}}
    <<"{","\"","e","x","p","o","\"",":","{","\"","p","l","u","g","i","n","s","\"",":","[","[",
      "]",",","{","}",",","[","\"","x","\"",",","\"","e","x","p","o","-","c","o","l","o","r",
      "-","s","p","a","c","e","-","p","l","u","g","i","n","\"","]","]","}","}">>
    ,
    \* {"expo":null,"b":"y"}
    <<"{","\"","e","x","p","o","\"",":","n","u","l","l",",","\"","b","\"",":","\"","y","\"","}">>
    ,
    \* {"expo":{"plugins":0}}
    <<"{","\"","e","x","p","o","\"",":","{","\"","p","l","u","g","i","n","s","\"",":","0","}",
      "}">>
    ,
    \* []
    <<"[","]">>
    ,
    \* [1]
    <<"[","1","]">>
    ,
    \* {"expo":[]}
    <<"{","\"","e","x","p","o","\"",":","[","]","}">>
    ,
    \* {"expo":{"plugins":{}}}
    <<"{","\"","e","x","p","o","\"",":","{","\"","p","l","u","g","i","n","s","\"",":","{","}",
      "}","}">>
    ,
    \* {"expo":1}
    <<"{","\"","e","x","p","o","\"",":","1","}">>
    ,
    \* null
    <<"n","u","l","l">>
    ,
    \* 5
    <<"5">>
    ,
    \* {"expo":   (cut short)
    <<"{","\"","e","x","p","o","\"",":">>
    ,
    \* {"expo":{},}   (trailing comma)
    <<"{","\"","e","x","p","o","\"",":","{","}",",","}">>
    ,
    \* the empty file
    << >>
    }

\* Contents of app.config.js the runs start from.
JsTexts == {
    \* module.exports = { expo: { plugins: [] } }
    <<"m","o","d","u","l","e",".","e","x","p","o","r","t","s"," ","="," ","{"," ","e","x","p",
      "o",":"," ","{"," ","p","l","u","g","i","n","s",":"," ","[","]"," ","}"," ","}">>
    ,
    \* export default { "expo": { "plugins": ["a"] } }
    <<"e","x","p","o","r","t"," ","d","e","f","a","u","l","t"," ","{"," ","\"","e","x","p","o",
      "\"",":"," ","{"," ","\"","p","l","u","g","i","n","s","\"",":"," ","[","\"","a","\"","]",
      " ","}"," ","}">>
    ,
    \* export default {\n  expo: { name: "X" }\n}\n
    <<"e","x","p","o","r","t"," ","d","e","f","a","u","l","t"," ","{","\n"," "," ","e","x","p",
      "o",":"," ","{"," ","n","a","m","e",":"," ","\"","X","\""," ","}","\n","}","\n">>
    ,
    \* { expo: { "plugins":[], x: { plugins:\n[] } } }
    <<"{"," ","e","x","p","o",":"," ","{"," ","\"","p","l","u","g","i","n","s","\"",":","[","]",
      ","," ","x",":"," ","{"," ","p","l","u","g","i","n","s",":","\n","[","]"," ","}"," ","}",
      " ","}">>
    ,
    \* { expo:{ "plugins": [1] } }
    <<"{"," ","e","x","p","o",":","{"," ","\"","p","l","u","g","i","n","s","\"",":"," ","[","1",
      "]"," ","}"," ","}">>
    ,
    \* { plugins: [1], expo: { plugins: [2] } }
    <<"{"," ","p","l","u","g","i","n","s",":"," ","[","1","]",","," ","e","x","p","o",":"," ",
      "{"," ","p","l","u","g","i","n","s",":"," ","[","2","]"," ","}"," ","}">>
    ,
    \* { expo: { plugins: ["expo-color-space-plugin"] } }
    <<"{"," ","e","x","p","o",":"," ","{"," ","p","l","u","g","i","n","s",":"," ","[","\"","e",
      "x","p","o","-","c","o","l","o","r","-","s","p","a","c","e","-","p","l","u","g","i","n",
      "\"","]"," ","}"," ","}">>
    ,
    \* // expo-color-space-plugin\n{ expo: {} }
    <<"/","/"," ","e","x","p","o","-","c","o","l","o","r","-","s","p","a","c","e","-","p","l",
      "u","g","i","n","\n","{"," ","e","x","p","o",":"," ","{","}"," ","}">>
    ,
    \* module.exports = require("./c")
    <<"m","o","d","u","l","e",".","e","x","p","o","r","t","s"," ","="," ","r","e","q","u","i",
      "r","e","(","\"",".","/","c","\"",")">>
    ,
    \* const plugins = []; expo = { plugins : [] }
    <<"c","o","n","s","t"," ","p","l","u","g","i","n","s"," ","="," ","[","]",";"," ","e","x",
      "p","o"," ","="," ","{"," ","p","l","u","g","i","n","s"," ",":"," ","[","]"," ","}">>
    ,
    \* the empty file
    << >>
    }

\* Contents of app.config.ts the runs start from.
TsTexts == {
    \* export default { expo: {} }
    <<"e","x","p","o","r","t"," ","d","e","f","a","u","l","t"," ","{"," ","e","x","p","o",":",
      " ","{","}"," ","}">>
    ,
    \* export default cfg as ExpoConfig
    <<"e","x","p","o","r","t"," ","d","e","f","a","u","l","t"," ","c","f","g"," ","a","s"," ",
      "E","x","p","o","C","o","n","f","i","g">>
    }

\* Content of a code-format file that accompanies a file of higher
\* priority.
CompanionText ==
    <<"{"," ","e","x","p","o",":"," ","{"," ","}"," ","}">>

\* The directories the runs start from: every subset of the three files is
\* present in some of them.
Directories ==
    {Dir(a, b, c) : a \in {File(t) : t \in JsonTexts},
                    b \in {Absent, File(CompanionText)},
                    c \in {Absent, File(CompanionText)}}
    \cup {Dir(Absent, b, c) : b \in {File(t) : t \in JsTexts},
                              c \in {Absent, File(CompanionText)}}
    \cup {Dir(Absent, Absent, c) : c \in {Absent} \cup {File(t) : t \in TsTexts}}

(***************************************************************************)
(* Command lines and prompt answers.                                       *)
(***************************************************************************)
CmdApply ==
    <<"a","p","p","l","y">>

CmdHelp ==
    <<"h","e","l","p">>

\* The prefix tested by arg.startsWith (cli.ts:214).
FlagPrefix ==
    <<"-","-","c","o","l","o","r","S","p","a","c","e","=">>

\* The values given after --colorSpace= on the command lines.
FlagValues == {
    <<"d","i","s","p","l","a","y","P","3">>
    ,
    <<"S","R","G","B">>
    ,
    <<"s","r","g","b">>
    ,
    <<"f","o","o">>
    ,
    <<"S","R","G","B","=","x">>
    ,
    << >>
    }

\* process.argv.slice(2) of the runs.
CommandLines ==
    {<< >>, <<CmdHelp>>, <<CmdApply>>}
    \cup {<<CmdApply, FlagPrefix \o v>> : v \in FlagValues}
    \cup {<<CmdApply, FlagPrefix \o <<"f">>, FlagPrefix \o SRGB>>}

\* The lines typed at the prompt.
Answers == {
    <<"1">>
    ,
    <<"2">>
    ,
    <<" ","2"," ">>
    ,
    <<"x">>
    ,
    << >>
    }

(***************************************************************************)
(* State.                                                                  *)
(***************************************************************************)
VARIABLES
    fs,          \* the working directory: file name -> [exists, content]
    argv,        \* process.argv.slice(2) of the current run
    pc,          \* where the current run stands
    options,     \* options.colorSpace of main (<<>> when unset)
    configFile,  \* configFile of apply ("" before detection, "null" if none)
    colorSpace,  \* colorSpace of apply (<<>> before it is known)
    modified,    \* modified of apply
    exitCode,    \* the process exit code (-1 while the run goes on)
    out,         \* the console lines of the current run
    trace,       \* the recorded steps of the current run
    run,         \* the number of the current run
    fs0,         \* the working directory when the current run started
    prev         \* the run before: its argv, exit code, modified, fs0, fs

vars == <<fs, argv, pc, options, configFile, colorSpace, modified, exitCode,
          out, trace, run, fs0, prev>>

NoPrev == [ran |-> FALSE, exitCode |-> 0, modified |-> FALSE,
           argv |-> <<>>, fs0 |-> Dir(Absent, Absent, Absent),
           fs |-> Dir(Absent, Absent, Absent)]

Init ==
    /\ fs \in Directories
    /\ argv \in CommandLines
    /\ pc = "main"
    /\ options = <<>>
    /\ configFile = ""
    /\ colorSpace = <<>>
    /\ modified = FALSE
    /\ exitCode = -1
    /\ out = <<>>
    /\ trace = <<>>
    /\ run = 1
    /\ fs0 = fs
    /\ prev = NoPrev

(***************************************************************************)
(* main (cli.ts:206-236).                                                  *)
(***************************************************************************)
\* args.find(arg => arg.startsWith('--colorSpace=')): the first such
\* argument, <<>> standing for undefined.
FindColorSpaceArg(args) ==
    IF \E i \in 1..Len(args) : StartsWith(args[i], FlagPrefix)
    THEN args[CHOOSE i \in 1..Len(args) :
                /\ StartsWith(args[i], FlagPrefix)
                /\ \A k \in 1..(i - 1) : ~StartsWith(args[k], FlagPrefix)]
    ELSE <<>>

\* colorSpaceArg.split('=')[1] (cli.ts:216).
FlagValue(colorSpaceArg) == Split(colorSpaceArg, "=")[2]

\* value === 'displayP3' || value === 'SRGB' (cli.ts:217).
IsColorSpace(value) == value = DisplayP3 \/ value = SRGB

\* args[0] (cli.ts:208), <<>> standing for undefined.
Command(args) == IF args = <<>> THEN <<>> ELSE args[1]

\* Any command but apply prints the usage; the process then ends with exit
\* code 0.
MainUsage ==
    /\ pc = "main"
    /\ Command(argv) # CmdApply
    /\ out' = Append(out, Line("usage", <<>>))
    /\ exitCode' = 0
    /\ pc' = "exit"
    /\ UNCHANGED <<fs, argv, options, configFile, colorSpace, modified,
                   trace, run, fs0, prev>>

\* apply with a --colorSpace= argument whose value is rejected:
\* process.exit(1).
MainInvalid ==
    /\ pc = "main"
    /\ Command(argv) = CmdApply
    /\ FindColorSpaceArg(argv) # <<>>
    /\ ~IsColorSpace(FlagValue(FindColorSpaceArg(argv)))
    /\ out' = Append(out, Line("invalidColorSpace", <<>>))
    /\ exitCode' = 1
    /\ pc' = "exit"
    /\ UNCHANGED <<fs, argv, options, configFile, colorSpace, modified,
                   trace, run, fs0, prev>>

\* apply without the argument, or with an accepted value: apply(options)
\* is called.
MainApply ==
    /\ pc = "main"
    /\ Command(argv) = CmdApply
    /\ LET arg == FindColorSpaceArg(argv) IN
        \/ /\ arg = <<>>
           /\ options' = <<>>
        \/ /\ arg # <<>>
           /\ IsColorSpace(FlagValue(arg))
           /\ options' = FlagValue(arg)
    /\ pc' = "apply"
    /\ UNCHANGED <<fs, argv, configFile, colorSpace, modified, exitCode,
                   out, trace, run, fs0, prev>>

(***************************************************************************)
(* apply (cli.ts:164-201) and detectConfigFile (cli.ts:17-28).             *)
(***************************************************************************)
\* Variant of DetectIndex: the last existing file wins.
DetectIndexLast(dir) ==
    IF \E i \in 1..Len(configFiles) : dir[configFiles[i]].exists
    THEN CHOOSE i \in 1..Len(configFiles) :
            /\ dir[configFiles[i]].exists
            /\ \A k \in (i + 1)..Len(configFiles) : ~dir[configFiles[k]].exists
    ELSE 0

\* The index in configFiles of the file detectConfigFile returns, 0 for
\* null.
DetectIndex(dir) ==
    IF \E i \in 1..Len(configFiles) : dir[configFiles[i]].exists
    THEN CHOOSE i \in 1..Len(configFiles) :
            /\ dir[configFiles[i]].exists
            /\ \A k \in 1..(i - 1) : ~dir[configFiles[k]].exists
    ELSE 0

detectConfigFile(dir) ==
    IF DetectIndex(dir) = 0 THEN "null" ELSE configFiles[DetectIndex(dir)]

\* The fs.existsSync calls of detectConfigFile: the loop stops at the
\* first file that exists.
DetectEvents(dir) ==
    LET n == IF DetectIndex(dir) = 0 THEN Len(configFiles) ELSE DetectIndex(dir)
    IN [i \in 1..n |-> Event("exists", configFiles[i])]

\* No configuration file: process.exit(1) (cli.ts:169-173).
ApplyNoConfig ==
    /\ pc = "apply"
    /\ detectConfigFile(fs) = "null"
    /\ configFile' = "null"
    /\ trace' = trace \o DetectEvents(fs)
    /\ out' = out \o <<Line("noConfigFile", <<>>), Line("runFromRoot", <<>>)>>
    /\ exitCode' = 1
    /\ pc' = "exit"
    /\ UNCHANGED <<fs, argv, options, colorSpace, modified, run, fs0, prev>>

\* Variant of ApplyWithOption: the prompt is shown although
\* options.colorSpace is set.
ApplyWithOptionPrompts ==
    /\ pc = "apply"
    /\ detectConfigFile(fs) # "null"
    /\ options # <<>>
    /\ configFile' = detectConfigFile(fs)
    /\ trace' = trace \o DetectEvents(fs) \o <<Event("prompt", "")>>
    /\ out' = out \o <<Line("found", <<detectConfigFile(fs)>>),
                       Line("whichColorSpace", <<>>)>>
    /\ pc' = "prompt"
    /\ UNCHANGED <<fs, argv, options, colorSpace, modified, exitCode, run,
                   fs0, prev>>

\* A file is found and options.colorSpace is set: no prompt (cli.ts:178).
ApplyWithOption ==
    /\ pc = "apply"
    /\ detectConfigFile(fs) # "null"
    /\ options # <<>>
    /\ configFile' = detectConfigFile(fs)
    /\ trace' = trace \o DetectEvents(fs)
    /\ out' = Append(out, Line("found", <<detectConfigFile(fs)>>))
    /\ colorSpace' = options
    /\ pc' = "modify"
    /\ UNCHANGED <<fs, argv, options, modified, exitCode, run, fs0, prev>>

\* A file is found and options.colorSpace is not set: promptColorSpace
\* asks its question and the run waits for the answer (cli.ts:33-44, 178).
ApplyPrompt ==
    /\ pc = "apply"
    /\ detectConfigFile(fs) # "null"
    /\ options = <<>>
    /\ configFile' = detectConfigFile(fs)
    /\ trace' = trace \o DetectEvents(fs) \o <<Event("prompt", "")>>
    /\ out' = out \o <<Line("found", <<detectConfigFile(fs)>>),
                       Line("whichColorSpace", <<>>)>>
    /\ pc' = "prompt"
    /\ UNCHANGED <<fs, argv, options, colorSpace, modified, exitCode, run,
                   fs0, prev>>

\* answer.trim() === '2' ? 'SRGB' : 'displayP3' (cli.ts:46).
ChoiceOf(answer) == IF Trim(answer) = <<"2">> THEN SRGB ELSE DisplayP3

\* The callback of rl.question (cli.ts:44-47): the answer resolves the
\* prompt.
Answer ==
    /\ pc = "prompt"
    /\ \E answer \in Answers : colorSpace' = ChoiceOf(answer)
    /\ pc' = "modify"
    /\ UNCHANGED <<fs, argv, options, configFile, modified, exitCode, out,
                   trace, run, fs0, prev>>

\* The patcher apply calls for the extension of file (cli.ts:181-188); a
\* file of another extension is left alone.
Patch(file, content, cs, readOk, writeOk) ==
    IF ExtName(file) = ".json"
    THEN modifyAppJson(file, content, cs, readOk, writeOk)
    ELSE IF ExtName(file) = ".js" \/ ExtName(file) = ".ts"
    THEN modifyAppConfigJs(file, content, cs, readOk, writeOk)
    ELSE Outcome(FALSE, FALSE, content, <<>>, <<>>)

\* Variant of Report: the success lines are printed without the test of
\* cli.ts:190.
ReportUnconditional(o, cs) ==
    IF o.threw THEN <<Line("error", <<>>)>>
    ELSE <<Line("success", cs), Line("nextSteps", <<>>)>>

\* The console lines of apply after the patcher (cli.ts:190-199).
Report(o, cs) ==
    IF o.threw THEN <<Line("error", <<>>)>>
    ELSE IF o.ret THEN <<Line("success", cs), Line("nextSteps", <<>>)>>
    ELSE <<>>

\* The rest of apply: the patcher runs, then the report; an exception
\* ends the run with process.exit(1) (cli.ts:180-200).
Modify ==
    /\ pc = "modify"
    /\ \E readOk \in BOOLEAN, writeOk \in BOOLEAN :
        LET o == Patch(configFile, fs[configFile].content, colorSpace,
                       readOk, writeOk)
        IN /\ fs' = [fs EXCEPT ![configFile].content = o.content]
           /\ modified' = o.ret
           /\ out' = out \o o.lines \o Report(o, colorSpace)
           /\ trace' = trace \o o.events
           /\ exitCode' = IF o.threw THEN 1 ELSE 0
    /\ pc' = "exit"
    /\ UNCHANGED <<argv, options, configFile, colorSpace, run, fs0, prev>>

(***************************************************************************)
(* The tool is invoked again in the same directory.                        *)
(***************************************************************************)
NextRun ==
    /\ pc = "exit"
    /\ run < MaxRuns
    /\ prev' = [ran |-> TRUE, exitCode |-> exitCode, modified |-> modified,
                argv |-> argv, fs0 |-> fs0, fs |-> fs]
    /\ run' = run + 1
    /\ argv' \in CommandLines
    /\ fs0' = fs
    /\ pc' = "main"
    /\ options' = <<>>
    /\ configFile' = ""
    /\ colorSpace' = <<>>
    /\ modified' = FALSE
    /\ exitCode' = -1
    /\ out' = <<>>
    /\ trace' = <<>>
    /\ UNCHANGED fs

Next ==
    \/ MainUsage
    \/ MainInvalid
    \/ MainApply
    \/ ApplyNoConfig
    \/ ApplyWithOption
    \/ ApplyPrompt
    \/ Answer
    \/ Modify
    \/ NextRun

Spec == Init /\ [][Next]_vars

(***************************************************************************)
(* Vocabulary of the properties.  The anchors, the fragments and the       *)
(* priority order are written out here from the documentation of the       *)
(* tool, independently of the operators that model the code.               *)
(***************************************************************************)
Done == pc = "exit"

TraceHas(ev) == \E i \in 1..Len(trace) : trace[i].ev = ev

Traced(ev, arg) == \E i \in 1..Len(trace) : trace[i] = Event(ev, arg)

OutHas(msg) == \E i \in 1..Len(out) : out[i].msg = msg

Printed(msg, text) == \E i \in 1..Len(out) : out[i] = Line(msg, text)

ColorSpaces == {DisplayP3, SRGB}

IsCodeFile(file) == file \in {"app.config.js", "app.config.ts"}

\* The content of the selected file when the run started, and now.
OldText == fs0[configFile].content

NewText == fs[configFile].content

\* ["expo-color-space-plugin", { "colorSpace": "<X>" }]
Template(x) ==
    IF x = SRGB THEN
    <<"[","\"","e","x","p","o","-","c","o","l","o","r","-","s","p","a","c","e","-","p","l","u",
      "g","i","n","\"",","," ","{"," ","\"","c","o","l","o","r","S","p","a","c","e","\"",":",
      " ","\"","S","R","G","B","\""," ","}","]">>
    ELSE
    <<"[","\"","e","x","p","o","-","c","o","l","o","r","-","s","p","a","c","e","-","p","l","u",
      "g","i","n","\"",","," ","{"," ","\"","c","o","l","o","r","S","p","a","c","e","\"",":",
      " ","\"","d","i","s","p","l","a","y","P","3","\""," ","}","]">>

\* The three anchors, by rank: plugins: [   "plugins": [   expo: {
AnchorWord(r) ==
    IF r = 1 THEN
    <<"p","l","u","g","i","n","s",":">>
    ELSE IF r = 2 THEN
    <<"\"","p","l","u","g","i","n","s","\"",":">>
    ELSE
    <<"e","x","p","o",":">>

AnchorOpen(r) == IF r = 3 THEN "{" ELSE "["

\* An occurrence of the anchor of rank r in s ends at position p.
AnchorEndsAt(s, r, p) ==
    /\ p \in 1..Len(s)
    /\ s[p] = AnchorOpen(r)
    /\ \E i \in 1..p :
        /\ OccursAt(s, i, AnchorWord(r))
        /\ i + Len(AnchorWord(r)) <= p
        /\ \A k \in (i + Len(AnchorWord(r)))..(p - 1) : s[k] \in WhiteSpace

HasAnchor(s, r) == \E p \in 1..Len(s) : AnchorEndsAt(s, r, p)

\* The lowest rank whose anchor occurs in s, 0 if none does.
LowestRank(s) ==
    IF HasAnchor(s, 1) THEN 1
    ELSE IF HasAnchor(s, 2) THEN 2
    ELSE IF HasAnchor(s, 3) THEN 3
    ELSE 0

\* The end of the first occurrence in s of the anchor of rank r.
FirstAnchorEnd(s, r) ==
    CHOOSE p \in 1..Len(s) :
        /\ AnchorEndsAt(s, r, p)
        /\ \A q \in 1..(p - 1) : ~AnchorEndsAt(s, r, q)

\* s with frag inserted after position p.
InsertAt(s, p, frag) == SubSeq(s, 1, p) \o frag \o SubSeq(s, p + 1, Len(s))

\* What the patcher inserts after an anchor of rank r: the entry on a line
\* of its own followed by a comma, or a new plugins list that holds it.
Fragment(r, x) ==
    IF r = 3
    THEN
    <<"\n"," "," "," "," ","p","l","u","g","i","n","s",":"," ","[","\n"," "," "," "," "," "," ">>
         \o Template(x) \o
    <<"\n"," "," "," "," ","]",",">>
    ELSE
    <<"\n"," "," "," "," "," "," ">>
         \o Template(x) \o <<",">>

\* The text a --colorSpace= argument gives after the prefix.
GivenValue(arg) == SubSeq(arg, Len(FlagPrefix) + 1, Len(arg))

\* The command line is apply --colorSpace=displayP3 or apply
\* --colorSpace=SRGB.
GivesColorSpace(args) ==
    /\ Command(args) = CmdApply
    /\ FindColorSpaceArg(args) # <<>>
    /\ GivenValue(FindColorSpaceArg(args)) \in ColorSpaces

\* The first file of the priority order that existed when the run
\* started, "null" if none.
FirstExisting ==
    IF fs0["app.json"].exists THEN "app.json"
    ELSE IF fs0["app.config.js"].exists THEN "app.config.js"
    ELSE IF fs0["app.config.ts"].exists THEN "app.config.ts"
    ELSE "null"

\* The run has selected a file.
Selected == configFile \in FileNames

\* The detection of the next run finds the entry in text.
NextRunDetects(file, text) ==
    \E i \in 1..Len(Patch(file, text, DisplayP3, TRUE, TRUE).events) :
        Patch(file, text, DisplayP3, TRUE, TRUE).events[i]
            = Event("detect", "true")

\* No file-system call of the run has thrown.
NoIoFailure == ~TraceHas("readFailed") /\ ~TraceHas("writeFailed")

(***************************************************************************)
(* C1.                                                                     *)
(***************************************************************************)
\* C1: when a run of apply with a color-space argument has patched the
\* file and apply is run again with a color-space argument (the same or
\* the other), the second run detects the entry, writes nothing and leaves
\* the file with the content the first run gave it.
C1_SecondApplyIsNoOp ==
    (/\ Done
     /\ prev.ran /\ prev.modified /\ GivesColorSpace(prev.argv)
     /\ GivesColorSpace(argv)
     /\ NoIoFailure)
    => (/\ fs = prev.fs
        /\ Traced("detect", "true")
        /\ ~TraceHas("write")
        /\ ~modified)

(***************************************************************************)
(* C2.                                                                     *)
(***************************************************************************)
\* C2: a run of apply whose --colorSpace= argument gives a value other
\* than displayP3 and SRGB ends with exit code 1, having read and written
\* no configuration file (runs in which a file-system call throws are left
\* aside).
C2_OtherValueIsFatal ==
    (/\ Done
     /\ Command(argv) = CmdApply
     /\ FindColorSpaceArg(argv) # <<>>
     /\ GivenValue(FindColorSpaceArg(argv)) \notin ColorSpaces
     /\ NoIoFailure)
    => (/\ exitCode = 1
        /\ fs = fs0
        /\ ~TraceHas("read") /\ ~TraceHas("write"))

(***************************************************************************)
(* C3.                                                                     *)
(***************************************************************************)
\* C3 as stated: the prompt is entered only after the detector has
\* returned false, and a run on a file that already holds the entry ends
\* with the 'already configured' report, exit code 0 and no mutation
\* without ever prompting.
C3_DetectionBeforePrompt ==
    /\ \A j \in 1..Len(trace) :
        trace[j].ev = "prompt"
            => \E i \in 1..(j - 1) : trace[i] = Event("detect", "false")
    /\ pc = "prompt" => Traced("detect", "false")
    /\ (Done /\ Traced("detect", "true"))
        => (/\ ~TraceHas("prompt")
            /\ exitCode = 0
            /\ fs = fs0
            /\ OutHas("alreadyConfigured"))

\* C3 as amended: the prompt precedes detection.  A run that locates a
\* file prompts exactly when no --colorSpace value was supplied, and the
\* detector has not run while the prompt waits; when the detector finds
\* the entry, the run ends with the 'already configured' report, exit
\* code 0 and no mutation, after the prompt iff no value was supplied.
C3_PromptBeforeDetection ==
    /\ \A i \in 1..Len(trace), j \in 1..Len(trace) :
        (trace[i].ev = "prompt" /\ trace[j].ev = "detect") => i < j
    /\ pc = "prompt" => (TraceHas("prompt") /\ ~TraceHas("detect"))
    /\ TraceHas("prompt") <=> (Selected /\ options = <<>>)
    /\ (Done /\ Traced("detect", "true"))
        => (/\ exitCode = 0
            /\ fs = fs0
            /\ ~TraceHas("write")
            /\ OutHas("alreadyConfigured")
            /\ ~OutHas("success")
            /\ TraceHas("prompt") <=> (options = <<>>))

\* A run without --colorSpace has prompted and then found the entry.
C3_Witness ==
    /\ Done
    /\ TraceHas("prompt")
    /\ Traced("detect", "true")
    /\ exitCode = 0

(***************************************************************************)
(* C4.                                                                     *)
(***************************************************************************)
\* A valid app.json document: an object whose expo, if present, is an
\* object whose plugins, if present, is an array.
ValidAppJson(doc) ==
    /\ doc.t = "object"
    /\ PropIndex(doc.props, KeyExpo) # 0 =>
        /\ GetProp(doc, KeyExpo).t = "object"
        /\ PropIndex(GetProp(doc, KeyExpo).props, KeyPlugins) # 0 =>
            GetProp(GetProp(doc, KeyExpo), KeyPlugins).t = "array"

\* The elements of doc.expo.plugins, <<>> where the list is absent.
PluginsOf(doc) ==
    IF doc.t = "object" /\ GetProp(doc, KeyExpo).t = "object"
       /\ GetProp(GetProp(doc, KeyExpo), KeyPlugins).t = "array"
    THEN GetProp(GetProp(doc, KeyExpo), KeyPlugins).items
    ELSE <<>>

\* The element ["expo-color-space-plugin", {"colorSpace": x}].
EntryFor(x) ==
    JArr(<<JStr(PluginId), JObj(<<<<KeyColorSpace, JStr(x)>>>>)>>)

\* C4: after a successful apply on a valid app.json, the output parses,
\* its expo.plugins is a list that holds the entry for the requested color
\* space exactly once and no other element for this plugin, the elements
\* present before come first in their order, and every other top-level
\* key has the value it had.
C4_AppJsonPatched ==
    (/\ Done
     /\ configFile = "app.json"
     /\ modified
     /\ JSONParse(OldText).ok
     /\ ValidAppJson(JSONParse(OldText).val))
    => LET old == JSONParse(OldText).val
           new == JSONParse(NewText)
           before == PluginsOf(old)
           after == PluginsOf(new.val)
       IN /\ new.ok
          /\ new.val.t = "object"
          /\ GetProp(new.val, KeyExpo).t = "object"
          /\ GetProp(GetProp(new.val, KeyExpo), KeyPlugins).t = "array"
          /\ Cardinality({i \in 1..Len(after) :
                            after[i] = EntryFor(colorSpace)}) = 1
          /\ Cardinality({i \in 1..Len(after) :
                            IsPluginElement(after[i])}) = 1
          /\ Len(after) = Len(before) + 1
          /\ SubSeq(after, 1, Len(before)) = before
          /\ \A i \in 1..Len(old.props) :
                old.props[i][1] # KeyExpo
                    => /\ PropIndex(new.val.props, old.props[i][1]) # 0
                       /\ GetProp(new.val, old.props[i][1]) = old.props[i][2]

\* A document with two plugins and other top-level keys has been patched.
C4_Witness ==
    /\ Done
    /\ configFile = "app.json"
    /\ modified
    /\ JSONParse(OldText).ok
    /\ ValidAppJson(JSONParse(OldText).val)
    /\ Len(PluginsOf(JSONParse(OldText).val)) = 2
    /\ Len(JSONParse(OldText).val.props) = 3
    /\ colorSpace = SRGB

(***************************************************************************)
(* C5.                                                                     *)
(***************************************************************************)
\* What the new text holds after position p beyond the old text.
InsertedAfter(p) == SubSeq(NewText, p + 1, p + Len(NewText) - Len(OldText))

\* C5 as stated, for runs of apply with a well-formed --colorSpace
\* argument or none: a patched code-format text is the old text with one
\* fragment inserted right after an anchor, and that fragment is, apart
\* from the white space around it, the template for the requested color
\* space followed by a comma.
C5_InsertedIsTemplate ==
    (/\ Done
     /\ argv = <<CmdApply>> \/ GivesColorSpace(argv)
     /\ IsCodeFile(configFile) /\ modified)
    => \E p \in 1..Len(OldText) :
        /\ \E r \in 1..3 : AnchorEndsAt(OldText, r, p)
        /\ Len(NewText) >= Len(OldText)
        /\ NewText = InsertAt(OldText, p, InsertedAfter(p))
        /\ Trim(InsertedAfter(p)) = Template(colorSpace) \o <<",">>

\* C5 as amended: a patched code-format text is the old text with one
\* fragment inserted right after an anchor, every other character kept in
\* place; after a plugins-list anchor the fragment is a line break, six
\* spaces, the template for the requested color space and a comma; after
\* the expo anchor it is a new plugins list declaration that holds the
\* template, followed by a comma.
C5_FrameAndFragment ==
    (Done /\ IsCodeFile(configFile) /\ modified)
    => \E p \in 1..Len(OldText), r \in 1..3 :
        /\ AnchorEndsAt(OldText, r, p)
        /\ NewText = InsertAt(OldText, p, Fragment(r, colorSpace))

\* A text has been patched at its expo anchor.
C5_Witness ==
    /\ Done
    /\ IsCodeFile(configFile)
    /\ modified
    /\ LowestRank(OldText) = 3
    /\ NewText # OldText

(***************************************************************************)
(* C6.                                                                     *)
(***************************************************************************)
\* C6: a run that ends with exit code 1 has written no file: every
\* configuration file has the content it had when the run started.
C6_FatalRunWritesNothing ==
    (Done /\ exitCode = 1) => (fs = fs0 /\ ~TraceHas("write"))

\* A patcher has read its file and failed on the content.
C6_Witness ==
    /\ Done
    /\ exitCode = 1
    /\ TraceHas("read")
    /\ NoIoFailure
    /\ OldText # <<>>

(***************************************************************************)
(* C7.                                                                     *)
(***************************************************************************)
\* C7: on a code-format file that holds neither the plugin identifier nor
\* any of the three anchors, a run writes nothing, and once the patcher
\* has read the file the run ends with exit code 0, having printed the
\* entry text for manual insertion and no report of success.
C7_NoAnchorNoWrite ==
    (/\ Selected
     /\ IsCodeFile(configFile)
     /\ ~Includes(OldText, PluginId)
     /\ LowestRank(OldText) = 0)
    => (/\ fs = fs0
        /\ ~TraceHas("write")
        /\ (Done /\ TraceHas("read"))
            => (/\ exitCode = 0
                /\ ~modified
                /\ Printed("manualEntry", Template(colorSpace))
                /\ ~OutHas("success")))

\* The patcher has given up on a non-empty text without anchor.
C7_Witness ==
    /\ Done
    /\ Selected
    /\ IsCodeFile(configFile)
    /\ OldText # <<>>
    /\ LowestRank(OldText) = 0
    /\ OutHas("couldNotModify")
    /\ exitCode = 0

(***************************************************************************)
(* C8.                                                                     *)
(***************************************************************************)
\* C8: a patched code-format text is the old text with the fragment of
\* the lowest-ranked anchor that occurs in it, inserted after the first
\* occurrence of that anchor and nowhere else, wherever the anchors of
\* higher rank stand; the run writes once.
C8_LowestRankWins ==
    (Done /\ IsCodeFile(configFile) /\ modified)
    => LET r == LowestRank(OldText) IN
       /\ r # 0
       /\ NewText = InsertAt(OldText, FirstAnchorEnd(OldText, r),
                             Fragment(r, colorSpace))
       /\ Cardinality({i \in 1..Len(trace) : trace[i].ev = "write"}) = 1

\* A text in which the expo anchor and the quoted plugins anchor stand
\* before the unquoted plugins anchor has been patched.
C8_Witness ==
    /\ Done
    /\ IsCodeFile(configFile)
    /\ modified
    /\ HasAnchor(OldText, 1) /\ HasAnchor(OldText, 2) /\ HasAnchor(OldText, 3)
    /\ FirstAnchorEnd(OldText, 3) < FirstAnchorEnd(OldText, 2)
    /\ FirstAnchorEnd(OldText, 2) < FirstAnchorEnd(OldText, 1)

(***************************************************************************)
(* C9.                                                                     *)
(***************************************************************************)
\* C9: the file a run selects is the first of app.json, app.config.js,
\* app.config.ts that exists; the run reads and writes that file only and
\* every other file keeps its content; when none exists the run ends with
\* exit code 1.
C9_FirstExistingOnly ==
    /\ configFile # "" => configFile = FirstExisting
    /\ \A i \in 1..Len(trace) :
        trace[i].ev \in {"read", "write", "readFailed", "writeFailed"}
            => (Selected /\ trace[i].arg = configFile)
    /\ \A f \in FileNames : f # configFile => fs[f] = fs0[f]
    /\ (pc \in {"prompt", "modify"} \/ TraceHas("read")) => Selected
    /\ configFile = "null" => (Done /\ exitCode = 1 /\ fs = fs0)
    /\ (Done /\ (argv = <<CmdApply>> \/ GivesColorSpace(argv))
            /\ FirstExisting = "null")
        => (exitCode = 1 /\ OutHas("noConfigFile"))
    /\ (Done /\ configFile = "") => trace = <<>>

\* With app.config.js and app.config.ts both present and no app.json,
\* app.config.js has been patched.
C9_Witness ==
    /\ Done
    /\ ~fs0["app.json"].exists
    /\ fs0["app.config.js"].exists
    /\ fs0["app.config.ts"].exists
    /\ Traced("write", "app.config.js")
    /\ fs["app.config.js"] # fs0["app.config.js"]

(***************************************************************************)
(* C10.                                                                    *)
(***************************************************************************)
\* C10: when a run of apply, with a well-formed --colorSpace argument or
\* none, has written the file and reported success, the detection of the
\* next run finds the entry in the written content.
C10_SuccessMeansDetectable ==
    (/\ Done
     /\ argv = <<CmdApply>> \/ GivesColorSpace(argv)
     /\ modified /\ OutHas("success") /\ TraceHas("write"))
    => NextRunDetects(configFile, NewText)

====
